---------------------------- MODULE Spec2Model ----------------------------
(***************************************************************************)
(* Model of nt/database/chime5/visualization.py: the overlap calculator    *)
(* (get_crosstalk_examples, calculate_overlap), the activity segmenter     *)
(* (plot_speaker_timelines) and the memoized sess_timeline.                *)
(*                                                                         *)
(* Strings are sequences of one-character strings so that the slices and   *)
(* splits of the code are computed, not assumed.  Floats that are ratios   *)
(* of two integers are pairs <<numerator, denominator>>.                   *)
(***************************************************************************)
EXTENDS Integers, Sequences, FiniteSets, TLC

VARIABLES
    args,       \* example_ids, session_id and crosstalk_times of the call
    call,       \* flag and thresholds of the get_crosstalk_examples call
    ret,        \* what that call returned (or the error it raised)
    plot_in,    \* arguments of the plot_speaker_timelines call
    plot_out,   \* plot_list, plot_color and the bar ends of that call
    cache,      \* lru_cache of sess_timeline: key -> cached axes object
    history,    \* the sess_timeline calls made so far, with their results
    num_active_speaker_calls, \* how often get_active_speaker was called
    olap        \* the running calculate_overlap call

vars == <<args, call, ret, plot_in,
          plot_out, cache, history, num_active_speaker_calls, olap>>

\* the value of a variable before the first call, and of "error" on success
None == [none |-> TRUE]
NoError == "None"

(***************************************************************************)
(* Bounds of the model                                                     *)
(***************************************************************************)
MaxUtts == 2        \* utterances in example_ids
MaxIntervals == 2   \* cross-talk intervals of a session
MaxSpeakers == 2    \* speakers of a timeline
MaxLen == 3         \* samples of an activity sequence
MaxCalls == 3       \* sess_timeline calls in a run

(***************************************************************************)
(* Python strings                                                          *)
(***************************************************************************)
Min(a, b) == IF a <= b THEN a ELSE b
Max(a, b) == IF a >= b THEN a ELSE b

\* ord(c) for the characters that occur in example ids
Ord(c) ==
    CASE c = "." -> 46
      [] c = "0" -> 48 [] c = "1" -> 49 [] c = "2" -> 50 [] c = "3" -> 51
      [] c = "4" -> 52 [] c = "5" -> 53 [] c = "6" -> 54 [] c = "7" -> 55
      [] c = "8" -> 56 [] c = "9" -> 57
      [] c = ":" -> 58
      [] c = "P" -> 80 [] c = "S" -> 83
      [] c = "_" -> 95

\* int(c) for a digit character, and str(d) for a digit
DigitVal(c) == Ord(c) - 48
DigitChar(d) == <<"0", "1", "2", "3", "4", "5", "6", "7", "8", "9">>[d + 1]

\* x[lo:hi] (0-based, hi exclusive, clipped to the string)
Slice(x, lo, hi) == SubSeq(x, lo + 1, Min(hi, Len(x)))

\* a < b for str: lexicographic by code point, a proper prefix is smaller
StrLt(a, b) ==
    \E i \in 1..(Min(Len(a), Len(b)) + 1) :
        /\ \A j \in 1..(i - 1) : a[j] = b[j]
        /\ \/ i > Len(a) /\ i <= Len(b)
           \/ i <= Len(a) /\ i <= Len(b) /\ Ord(a[i]) < Ord(b[i])

\* x.split(sep)
RECURSIVE SplitFrom(_, _, _, _)
SplitFrom(x, sep, i, cur) ==
    IF i > Len(x) THEN <<cur>>
    ELSE IF x[i] = sep THEN <<cur>> \o SplitFrom(x, sep, i + 1, <<>>)
    ELSE SplitFrom(x, sep, i + 1, Append(cur, x[i]))

Split(x, sep) == SplitFrom(x, sep, 1, <<>>)

\* int(s) for a string of digits
RECURSIVE ParseInt(_)
ParseInt(s) ==
    IF Len(s) = 0 THEN 0
    ELSE 10 * ParseInt(SubSeq(s, 1, Len(s) - 1)) + DigitVal(s[Len(s)])

(***************************************************************************)
(* Floats that are quotients of integers: <<n, d>> stands for n / d.       *)
(* numpy division by 0 gives inf (n > 0) or nan (n = 0), no exception.     *)
(***************************************************************************)
IsNan(r) == r[2] = 0 /\ r[1] = 0
IsInf(r) == r[2] = 0 /\ r[1] > 0

\* a > b and a <= b as IEEE comparisons (every comparison with nan is False)
RatGt(a, b) ==
    IF IsNan(a) \/ IsNan(b) THEN FALSE
    ELSE IF IsInf(a) THEN ~IsInf(b)
    ELSE IF IsInf(b) THEN FALSE
    ELSE a[1] * b[2] > b[1] * a[2]

RatLeq(a, b) ==
    IF IsNan(a) \/ IsNan(b) THEN FALSE
    ELSE IF IsInf(b) THEN TRUE
    ELSE IF IsInf(a) THEN FALSE
    ELSE a[1] * b[2] <= b[1] * a[2]

(***************************************************************************)
(* Time stamps and sample counts                                           *)
(***************************************************************************)
sample_rate == 16000
sample_step == 160

\* to_samples(time): "h:mm:ss.cc" at 16 kHz, one hundredth is 160 samples
to_samples(time) ==
    LET hms == Split(time, ":")
        sec == Split(hms[3], ".")
    IN  (ParseInt(hms[1]) * 3600 + ParseInt(hms[2]) * 60 + ParseInt(sec[1]))
            * sample_rate
        + ParseInt(sec[2]) * (sample_rate \div 100)

\* to_numpy(in_dict, start_sample, end_sample, sample_step).sum(): the number
\* of ticks start_sample + k * sample_step below end_sample that lie in the
\* union of the intervals [start, end)
to_numpy_sum(intervals, start_sample, end_sample, step) ==
    LET n == end_sample - start_sample
        ticks == IF n <= 0 THEN {} ELSE 0..((n - 1) \div step)
    IN  Cardinality({k \in ticks :
            \E iv \in intervals :
                /\ Max(iv[1] - start_sample, 0) <= k * step
                /\ k * step < iv[2] - start_sample})

(***************************************************************************)
(* get_crosstalk_examples                                                  *)
(***************************************************************************)
\* int(x / 160) for an integer x: truncation towards zero
IntDiv(x, d) == IF x >= 0 THEN x \div d ELSE -((-x) \div d)

start_sample_of(example_id) == to_samples(Split(example_id, "_")[3])
end_sample_of(example_id) == to_samples(Split(example_id, "_")[4])

\* crosstalk_idx: the intervals that lie within the utterance span
crosstalk_idx(crosstalk_times, start_sample, end_sample) ==
    {iv \in crosstalk_times : iv[1] >= start_sample /\ iv[2] <= end_sample}

\* mutant: the array is sampled at every 80th sample, the length at every 160th
overlap_ratio_step_mismatch(example_id, crosstalk_times) ==
    LET start_sample == start_sample_of(example_id)
        end_sample == end_sample_of(example_id)
        selected == crosstalk_idx(crosstalk_times, start_sample, end_sample)
    IN  IF selected # {}
        THEN <<to_numpy_sum(selected, start_sample, end_sample, 80),
               IntDiv(end_sample - start_sample, 160)>>
        ELSE <<0, 1>>

\* overlap_ratio of one utterance
overlap_ratio(example_id, crosstalk_times) ==
    LET start_sample == start_sample_of(example_id)
        end_sample == end_sample_of(example_id)
        selected == crosstalk_idx(crosstalk_times, start_sample, end_sample)
    IN  IF selected # {}
        THEN <<to_numpy_sum(selected, start_sample, end_sample, sample_step),
               IntDiv(end_sample - start_sample, 160)>>
        ELSE <<0, 1>>

\* mutant: >= min_overlap in place of > min_overlap
retained_geq_min(ratio, with_crosstalk, min_overlap, max_overlap) ==
    IF ~with_crosstalk /\ RatLeq(ratio, max_overlap) THEN TRUE
    ELSE with_crosstalk /\ RatLeq(min_overlap, ratio)

\* mutant: < max_overlap in place of <= max_overlap
retained_lt_max(ratio, with_crosstalk, min_overlap, max_overlap) ==
    IF ~with_crosstalk /\ RatGt(max_overlap, ratio) THEN TRUE
    ELSE with_crosstalk /\ RatGt(ratio, min_overlap)

\* the branch that appends example_id to filtered_examples
retained(ratio, with_crosstalk, min_overlap, max_overlap) ==
    IF ~with_crosstalk /\ RatLeq(ratio, max_overlap) THEN TRUE
    ELSE with_crosstalk /\ RatGt(ratio, min_overlap)

\* filter(lambda x: x[0:3] == session_id, example_ids)
RECURSIVE session_examples(_, _)
session_examples(example_ids, session_id) ==
    IF example_ids = <<>> THEN <<>>
    ELSE (IF Slice(Head(example_ids), 0, 3) = session_id
          THEN <<Head(example_ids)>> ELSE <<>>)
         \o session_examples(Tail(example_ids), session_id)

\* mutant: the slice starts one character late and loses the hours digit
sort_key_late(x) == Slice(x, 9, 18)

\* the sort key of the returned list
sort_key(x) == Slice(x, 8, 18)

\* sorted(xs, key=sort_key): stable, so x goes behind every key <= its own
RECURSIVE sorted_by_key(_)
sorted_by_key(xs) ==
    IF xs = <<>> THEN <<>>
    ELSE LET front == sorted_by_key(SubSeq(xs, 1, Len(xs) - 1))
             x == xs[Len(xs)]
             pos == Cardinality({i \in 1..Len(front) :
                        ~StrLt(sort_key(x), sort_key(front[i]))})
         IN  SubSeq(front, 1, pos) \o <<x>> \o SubSeq(front, pos + 1, Len(front))

RECURSIVE filter_examples(_, _, _, _, _)
filter_examples(examples, crosstalk_times, with_crosstalk, min_overlap, max_overlap) ==
    IF examples = <<>> THEN <<>>
    ELSE (IF retained(overlap_ratio(Head(examples), crosstalk_times),
                      with_crosstalk, min_overlap, max_overlap)
          THEN <<Head(examples)>> ELSE <<>>)
         \o filter_examples(Tail(examples), crosstalk_times, with_crosstalk,
                            min_overlap, max_overlap)

\* mutant: filter_ratio divides by len(example_ids), not by num_examples
get_crosstalk_examples_all_ids(example_ids, session_id, crosstalk_times, with_crosstalk, min_overlap, max_overlap) ==
    LET examples == session_examples(example_ids, session_id)
        filtered_examples ==
            filter_examples(examples, crosstalk_times, with_crosstalk,
                            min_overlap, max_overlap)
    IN  IF Len(example_ids) = 0
        THEN [error |-> "ZeroDivisionError"]
        ELSE [error |-> NoError,
              filtered_examples |-> sorted_by_key(filtered_examples),
              filter_ratio |-> <<Len(filtered_examples), Len(example_ids)>>,
              relative_overlap_per_utt |->
                  [i \in 1..Len(examples) |->
                      overlap_ratio(examples[i], crosstalk_times)]]

get_crosstalk_examples(example_ids, session_id, crosstalk_times, with_crosstalk, min_overlap, max_overlap) ==
    LET examples == session_examples(example_ids, session_id)
        num_examples == Len(examples)
        filtered_examples ==
            filter_examples(examples, crosstalk_times, with_crosstalk,
                            min_overlap, max_overlap)
        relative_overlap_per_utt ==
            [i \in 1..num_examples |-> overlap_ratio(examples[i], crosstalk_times)]
    IN  IF num_examples = 0
        THEN [error |-> "ZeroDivisionError"]
        ELSE [error |-> NoError,
              filtered_examples |-> sorted_by_key(filtered_examples),
              filter_ratio |-> <<Len(filtered_examples), num_examples>>,
              relative_overlap_per_utt |-> relative_overlap_per_utt]


(***************************************************************************)
(* plot_speaker_timelines                                                  *)
(***************************************************************************)
\* itertools.groupby(enumerate(a), key=itemgetter(1)): the groups in order,
\* each with its key k and the indices (0-based) of its first and last item
RECURSIVE groupby(_, _, _)
groupby(a, i, groups) ==
    IF i > Len(a) THEN groups
    ELSE IF groups # <<>> /\ groups[Len(groups)].k = a[i]
    THEN groupby(a, i + 1,
                 [groups EXCEPT ![Len(groups)].last = i - 1])
    ELSE groupby(a, i + 1,
                 Append(groups, [k |-> a[i], first |-> i - 1, last |-> i - 1]))

\* mutant: the duration of a run without the + 1
run_duration_short(v) == v.last - v.first

\* v[-1][0] - v[0][0] + 1
run_duration(v) == v.last - v.first + 1

\* mutant: bin_id is not reset for the next speaker
first_bin_id_carried(bin_id) == bin_id

\* bin_id = 0 at the start of every speaker
first_bin_id(bin_id) == 0

\* one pass of the inner loop body: bins is [plot_list, plot_color], both
\* maps from bin id to an array with one entry per speaker (index idx + 1)
add_run(bins, bin_id, idx, v, speaker_size) ==
    LET plot_list == IF bin_id \in DOMAIN bins.plot_list
                     THEN bins.plot_list
                     ELSE bins.plot_list
                            @@ (bin_id :> [i \in 1..speaker_size |-> 0])
        plot_color == IF bin_id \in DOMAIN bins.plot_color
                      THEN bins.plot_color
                      ELSE bins.plot_color
                             @@ (bin_id :> [i \in 1..speaker_size |-> "w"])
    IN  [plot_list |-> [plot_list EXCEPT ![bin_id][idx + 1] = run_duration(v)],
         plot_color |-> IF v.k
                        THEN [plot_color EXCEPT ![bin_id][idx + 1] = "g"]
                        ELSE plot_color]

\* the inner loop over the groups of one speaker, from group j on
RECURSIVE add_runs(_, _, _, _, _, _)
add_runs(bins, bin_id, idx, groups, j, speaker_size) ==
    IF j > Len(groups) THEN [bins |-> bins, bin_id |-> bin_id]
    ELSE add_runs(add_run(bins, bin_id, idx, groups[j], speaker_size),
                  bin_id + 1, idx, groups, j + 1, speaker_size)

\* the outer loop over the speakers, from speaker idx on
RECURSIVE add_speakers(_, _, _, _)
add_speakers(bins, bin_id, idx, speaker_activity) ==
    IF idx >= Len(speaker_activity) THEN bins
    ELSE LET done == add_runs(bins, first_bin_id(bin_id), idx,
                              groupby(speaker_activity[idx + 1], 1, <<>>), 1,
                              Len(speaker_activity))
         IN  add_speakers(done.bins, done.bin_id, idx + 1, speaker_activity)

\* left_val after the bars of the bins before bin_id were drawn (the bins
\* were inserted, and are iterated, in ascending order of bin id)
RECURSIVE left_val(_, _, _, _)
left_val(plot_list, bin_id, left_init, speaker_size) ==
    IF bin_id = 0 THEN [i \in 1..speaker_size |-> left_init]
    ELSE LET before == left_val(plot_list, bin_id - 1, left_init, speaker_size)
         IN  [i \in 1..speaker_size |-> before[i] + plot_list[bin_id - 1][i]]

\* np.sum(np.asarray(list(speaker_activity.values())), 0)
num_active_speakers(speaker_activity) ==
    [t \in 1..Len(speaker_activity[1]) |->
        Cardinality({i \in 1..Len(speaker_activity) : speaker_activity[i][t]})]

\* the axvline calls: blue at the first, red at the last tick of every
\* stretch with exactly one active speaker
single_speaker_lines(speaker_activity, left_init) ==
    LET groups == groupby(num_active_speakers(speaker_activity), 1, <<>>)
    IN  UNION {{[x |-> left_init + groups[j].first, color |-> "blue"],
                [x |-> left_init + groups[j].last, color |-> "red"]} :
               j \in {j \in 1..Len(groups) : groups[j].k = 1}}

\* speaker_activity is the list of the activity arrays in dict order
plot_speaker_timelines(speaker_activity, left_init) ==
    LET speaker_size == Len(speaker_activity)
        bins == add_speakers([plot_list |-> <<>>, plot_color |-> <<>>], 0, 0,
                             speaker_activity)
    IN  [plot_list |-> bins.plot_list,
         plot_color |-> bins.plot_color,
         bar_left |-> [b \in DOMAIN bins.plot_list |->
                          left_val(bins.plot_list, b, left_init, speaker_size)],
         left_val |-> left_val(bins.plot_list,
                               Cardinality(DOMAIN bins.plot_list), left_init,
                               speaker_size),
         lines |-> single_speaker_lines(speaker_activity, left_init)]

(***************************************************************************)
(* Inputs of get_crosstalk_examples                                        *)
(***************************************************************************)
\* session ids are the first three characters of an example id
SessionIds == {<<"S", "0", "2">>, <<"S", "0", "9">>}
SpeakerId == <<"P", "0", "5">>

TwoDigits(n) == <<DigitChar(n \div 10), DigitChar(n % 10)>>

\* <<h, m, s, c>> written as "h:mm:ss.cc"
FormatTime(t) ==
    <<DigitChar(t[1])>> \o <<":">> \o TwoDigits(t[2]) \o <<":">>
        \o TwoDigits(t[3]) \o <<".">> \o TwoDigits(t[4])

\* "<session>_<speaker>_<start time>_<end time>"
ExampleId(session, start_time, end_time) ==
    session \o <<"_">> \o SpeakerId \o <<"_">> \o FormatTime(start_time)
        \o <<"_">> \o FormatTime(end_time)

\* utterances of S02 over the samples [0, 320), [320, 640) and, an hour
\* later, [57600000, 57600320); one utterance of S09
ExampleIds ==
    { ExampleId(<<"S", "0", "2">>, <<0, 0, 0, 0>>, <<0, 0, 0, 2>>),
      ExampleId(<<"S", "0", "2">>, <<0, 0, 0, 2>>, <<0, 0, 0, 4>>),
      ExampleId(<<"S", "0", "2">>, <<1, 0, 0, 0>>, <<1, 0, 0, 2>>),
      ExampleId(<<"S", "0", "9">>, <<0, 0, 0, 0>>, <<0, 0, 0, 2>>) }

\* lists of distinct ids (the keys of the data set iterator)
ExampleIdLists ==
    UNION {{l \in [1..n -> ExampleIds] :
                \A i, j \in 1..n : i # j => l[i] # l[j]} : n \in 0..MaxUtts}

\* cross-talk intervals <<start, end>> in samples, start < end: within one
\* utterance (on and off the sampling ticks), across two utterances, and
\* an hour later
Intervals == { <<0, 160>>, <<0, 320>>, <<80, 240>>, <<160, 480>>,
               <<320, 640>>, <<400, 560>>, <<57600000, 57600160>> }

CrosstalkSets == {c \in SUBSET Intervals : Cardinality(c) <= MaxIntervals}

\* min_overlap, max_overlap; 0.0 is the default of both
Thresholds == { <<-1, 2>>, <<0, 1>>, <<1, 2>> }
DefaultOverlap == <<0, 1>>

(***************************************************************************)
(* Initial states                                                          *)
(***************************************************************************)
CrosstalkIdle ==
    /\ args = None
    /\ call = None
    /\ ret = None

TimelineIdle == plot_in = None /\ plot_out = None

CacheIdle == cache = <<>> /\ history = <<>> /\ num_active_speaker_calls = 0

OverlapIdle == olap = None

\* the arguments example_ids, session_id and crosstalk_times of a call
InitCrosstalk ==
    /\ args \in [example_ids : ExampleIdLists, session_id : SessionIds,
                  crosstalk_times : CrosstalkSets]
    /\ call = None
    /\ ret = None
    /\ TimelineIdle /\ CacheIdle /\ OverlapIdle

\* get_crosstalk_examples called with a flag and the threshold its branch
\* reads; the other threshold keeps its default.  The function keeps nothing
\* between calls, so a run makes one call.
GetCrosstalkExamples ==
    /\ call = None
    /\ \E with_crosstalk \in BOOLEAN, threshold \in Thresholds :
        LET min_overlap == IF with_crosstalk THEN threshold ELSE DefaultOverlap
            max_overlap == IF with_crosstalk THEN DefaultOverlap ELSE threshold
        IN  /\ call' = [with_crosstalk |-> with_crosstalk,
                        min_overlap |-> min_overlap,
                        max_overlap |-> max_overlap]
            /\ ret' = get_crosstalk_examples(args.example_ids,
                          args.session_id, args.crosstalk_times,
                          with_crosstalk, min_overlap, max_overlap)
    /\ UNCHANGED <<args, plot_in,
                   plot_out, cache, history, num_active_speaker_calls, olap>>

SpecCrosstalk == InitCrosstalk /\ [][GetCrosstalkExamples]_vars

(***************************************************************************)
(* Properties of get_crosstalk_examples                                    *)
(***************************************************************************)
Returned == ret # None /\ ret.error = NoError

\* the utterances of the selected session, as a set of indices of args.example_ids
SessionIdx ==
    {i \in 1..Len(args.example_ids) :
        Slice(args.example_ids[i], 0, 3) = args.session_id}

Range(f) == {f[i] : i \in DOMAIN f}

\* C1: every overlap ratio appended to relative_overlap_per_utt is a value
\* in [0, 1]
C1_RatioInUnitInterval ==
    Returned =>
        \A i \in DOMAIN ret.relative_overlap_per_utt :
            LET r == ret.relative_overlap_per_utt[i]
            IN  r[2] > 0 /\ 0 <= r[1] /\ r[1] <= r[2]

\* an utterance with cross-talk on some but not all of its ticks, and one
\* with cross-talk on all of them
C1_Witness ==
    /\ Returned
    /\ \E i \in DOMAIN ret.relative_overlap_per_utt :
          LET r == ret.relative_overlap_per_utt[i]
          IN  0 < r[1] /\ r[1] < r[2]
    /\ \E i \in DOMAIN ret.relative_overlap_per_utt :
          LET r == ret.relative_overlap_per_utt[i]
          IN  0 < r[1] /\ r[1] = r[2]

\* the threshold the call compared with
UsedThreshold ==
    IF call.with_crosstalk THEN call.min_overlap ELSE call.max_overlap

\* the call with the other value of with_crosstalk at the same threshold
OtherCall ==
    get_crosstalk_examples(args.example_ids, args.session_id,
        args.crosstalk_times, ~call.with_crosstalk, UsedThreshold,
        UsedThreshold)

\* C2: at one threshold t, the utterances returned with with_crosstalk=True,
\* min_overlap=t and with with_crosstalk=False, max_overlap=t are disjoint
\* and together are the utterances of the session, each exactly once
C2_Partition ==
    Returned =>
        LET a == ret.filtered_examples
            b == OtherCall.filtered_examples
        IN  /\ Range(a) \cap Range(b) = {}
            /\ Range(a) \cup Range(b) = {args.example_ids[i] : i \in SessionIdx}
            /\ Len(a) + Len(b) = Cardinality(SessionIdx)

\* both sides of the partition are inhabited
C2_Witness ==
    /\ Returned
    /\ ret.filtered_examples # <<>>
    /\ OtherCall.filtered_examples # <<>>

\* C3: the returned list is in ascending order of the start time encoded in
\* the ids
C3_SortedByStartTime ==
    Returned =>
        \A i \in 1..(Len(ret.filtered_examples) - 1) :
            start_sample_of(ret.filtered_examples[i])
                <= start_sample_of(ret.filtered_examples[i + 1])

\* two utterances were given latest first and came back earliest first
C3_Witness ==
    /\ Returned
    /\ Len(ret.filtered_examples) = 2
    /\ args.example_ids = <<ret.filtered_examples[2], ret.filtered_examples[1]>>
    /\ start_sample_of(ret.filtered_examples[1])
          < start_sample_of(ret.filtered_examples[2])

\* no cross-talk interval lies within the span of utterance i
NoIntervalWithin(i) ==
    LET x == args.example_ids[i]
    IN  ~\E iv \in args.crosstalk_times :
            iv[1] >= start_sample_of(x) /\ iv[2] <= end_sample_of(x)

\* position of utterance i of args.example_ids in relative_overlap_per_utt
PosInSession(i) == Cardinality({j \in SessionIdx : j <= i})

IsZero(r) == r[1] = 0 /\ r[2] # 0

\* C5 as stated: an utterance whose span contains no cross-talk interval has
\* ratio 0, is retained only with with_crosstalk=False and max_overlap >= 0,
\* and is never retained with with_crosstalk=True
C5_AsStated ==
    Returned =>
        \A i \in SessionIdx :
            NoIntervalWithin(i) =>
                /\ IsZero(ret.relative_overlap_per_utt[PosInSession(i)])
                /\ args.example_ids[i] \in Range(ret.filtered_examples)
                      => ~call.with_crosstalk /\ call.max_overlap[1] >= 0
                /\ call.with_crosstalk
                      => args.example_ids[i] \notin Range(ret.filtered_examples)

\* C5 amended: such an utterance has ratio 0 and is retained exactly when
\* with_crosstalk=False and max_overlap >= 0, or with_crosstalk=True and
\* min_overlap < 0
C5_ZeroRatioRetention ==
    Returned =>
        \A i \in SessionIdx :
            NoIntervalWithin(i) =>
                /\ IsZero(ret.relative_overlap_per_utt[PosInSession(i)])
                /\ args.example_ids[i] \in Range(ret.filtered_examples)
                      <=> \/ ~call.with_crosstalk /\ call.max_overlap[1] >= 0
                          \/ call.with_crosstalk /\ call.min_overlap[1] < 0

\* an utterance without an interval in its span, next to cross-talk
\* intervals of the session, retained under max_overlap = 0
C5_Witness ==
    /\ Returned
    /\ args.crosstalk_times # {}
    /\ ~call.with_crosstalk
    /\ call.max_overlap = <<0, 1>>
    /\ \E i \in SessionIdx :
          /\ NoIntervalWithin(i)
          /\ args.example_ids[i] \in Range(ret.filtered_examples)

\* utterance i shares at least one sample with a cross-talk interval
OverlapsSomeInterval(i) ==
    LET x == args.example_ids[i]
    IN  \E iv \in args.crosstalk_times :
            iv[1] < end_sample_of(x) /\ iv[2] > start_sample_of(x)

\* C6: with the default thresholds, with_crosstalk=True returns the
\* utterances that share at least one sample with a cross-talk interval
\* (also one that only partly overlaps them), with_crosstalk=False the rest
C6_DocstringFilter ==
    (Returned /\ call.min_overlap = <<0, 1>> /\ call.max_overlap = <<0, 1>>) =>
        Range(ret.filtered_examples) =
            {args.example_ids[i] : i \in
                {j \in SessionIdx : OverlapsSomeInterval(j) = call.with_crosstalk}}

\* C8: an empty session selection ends in the division by zero of
\* filter_ratio; otherwise filter_ratio is retained over session utterances
C8_FilterRatio ==
    ret # None =>
        IF SessionIdx = {}
        THEN ret.error = "ZeroDivisionError"
        ELSE /\ ret.error = NoError
             /\ ret.filter_ratio
                    = <<Len(ret.filtered_examples), Cardinality(SessionIdx)>>

\* args.example_ids holds utterances, none of them of the selected session
C8_Witness ==
    /\ ret # None
    /\ args.example_ids # <<>>
    /\ SessionIdx = {}
    /\ ret.error = "ZeroDivisionError"

(***************************************************************************)
(* plot_speaker_timelines: inputs, call and properties                     *)
(***************************************************************************)
\* one boolean array per speaker, all of one length
ActivityLists ==
    UNION {[1..n -> [1..len -> BOOLEAN]] :
           n \in 1..MaxSpeakers, len \in 0..MaxLen}

\* start * sample_rate for start = 0 and for the default start = 60
LeftInits == {0, 60 * sample_rate}

InitTimeline ==
    /\ plot_in \in [speaker_activity : ActivityLists, left_init : LeftInits]
    /\ plot_out = None
    /\ CrosstalkIdle /\ CacheIdle /\ OverlapIdle

PlotSpeakerTimelines ==
    /\ plot_out = None
    /\ plot_out' = plot_speaker_timelines(plot_in.speaker_activity,
                                          plot_in.left_init)
    /\ UNCHANGED <<args, call, ret, plot_in, cache, history,
                   num_active_speaker_calls, olap>>

SpecTimeline == InitTimeline /\ [][PlotSpeakerTimelines]_vars

RECURSIVE SumBins(_, _, _)
SumBins(plot_list, bin_ids, i) ==
    IF bin_ids = {} THEN 0
    ELSE LET b == CHOOSE b \in bin_ids : TRUE
         IN  plot_list[b][i] + SumBins(plot_list, bin_ids \ {b}, i)

\* C4: for every speaker the durations written into the bins sum to the
\* length of the speaker's activity sequence, so the bars of the speaker end
\* at left_init plus that length
C4_RunLengthsSum ==
    plot_out # None =>
        \A i \in 1..Len(plot_in.speaker_activity) :
            /\ SumBins(plot_out.plot_list, DOMAIN plot_out.plot_list, i)
                  = Len(plot_in.speaker_activity[i])
            /\ plot_out.left_val[i]
                  = plot_in.left_init + Len(plot_in.speaker_activity[i])

\* a speaker whose activity changes twice, drawn from the default offset
C4_Witness ==
    /\ plot_out # None
    /\ plot_in.left_init > 0
    /\ \E i \in 1..Len(plot_in.speaker_activity) :
          /\ Len(plot_in.speaker_activity[i]) = 3
          /\ \A b \in 0..2 : b \in DOMAIN plot_out.plot_list
                                /\ plot_out.plot_list[b][i] = 1

\* the maximal constant runs of a sequence, told by where they start
RunStarts(a) == {t \in 1..Len(a) : t = 1 \/ a[t] # a[t - 1]}
RunCount(a) == Cardinality(RunStarts(a))
NthRunStart(a, n) ==
    CHOOSE t \in RunStarts(a) : Cardinality({u \in RunStarts(a) : u <= t}) = n
NthRunLength(a, n) ==
    (IF n < RunCount(a) THEN NthRunStart(a, n + 1) ELSE Len(a) + 1)
        - NthRunStart(a, n)

MaxRunCount ==
    LET counts == {RunCount(plot_in.speaker_activity[i]) :
                      i \in 1..Len(plot_in.speaker_activity)}
    IN  CHOOSE c \in counts : \A d \in counts : d <= c

\* C9: bin i holds, for every speaker, the length of the speaker's i-th
\* maximal constant run and 'g' iff that run is active, or 0 and 'w' when the
\* speaker has fewer runs; there are as many bins as the longest run list
C9_BinsHoldRuns ==
    plot_out # None =>
        /\ DOMAIN plot_out.plot_list = 0..(MaxRunCount - 1)
        /\ DOMAIN plot_out.plot_color = 0..(MaxRunCount - 1)
        /\ \A b \in DOMAIN plot_out.plot_list :
           \A i \in 1..Len(plot_in.speaker_activity) :
              LET a == plot_in.speaker_activity[i]
              IN  IF b + 1 <= RunCount(a)
                  THEN /\ plot_out.plot_list[b][i] = NthRunLength(a, b + 1)
                       /\ plot_out.plot_color[b][i] = "g"
                             <=> a[NthRunStart(a, b + 1)]
                       /\ plot_out.plot_color[b][i] \in {"g", "w"}
                  ELSE /\ plot_out.plot_list[b][i] = 0
                       /\ plot_out.plot_color[b][i] = "w"

\* a bin that holds an active run of one speaker and the default of another
C9_Witness ==
    /\ plot_out # None
    /\ \E b \in DOMAIN plot_out.plot_list :
       \E i, j \in 1..Len(plot_in.speaker_activity) :
          /\ plot_out.plot_color[b][i] = "g"
          /\ plot_out.plot_list[b][i] > 1
          /\ b + 1 > RunCount(plot_in.speaker_activity[j])
          /\ plot_out.plot_list[b][j] = 0

(***************************************************************************)
(* sess_timeline under lru_cache(maxsize=None)                             *)
(***************************************************************************)
default_start == 60
default_duration == 120

\* a call is [args |-> positional arguments, kwds |-> <<name, value>> pairs
\* in the order written]
Sessions == {"S02", "S09"}
StartValues == {0, default_start}

SessTimelineCalls ==
    {[args |-> <<s>>, kwds |-> <<>>] : s \in Sessions}
    \cup {[args |-> <<s, st>>, kwds |-> <<>>] : s \in Sessions, st \in StartValues}
    \cup {[args |-> <<s, default_start, default_duration>>, kwds |-> <<>>] :
              s \in Sessions}
    \cup {[args |-> <<s>>, kwds |-> << <<"start", st>> >>] :
              s \in Sessions, st \in StartValues}
    \cup {[args |-> <<s>>, kwds |-> << <<"duration", default_duration>> >>] :
              s \in Sessions}

\* the key lru_cache makes of a call: the positional arguments and the
\* keyword arguments as passed; defaults are not filled in
make_key(c) == <<c.args, c.kwds>>

\* the value parameter number pos (named name) is bound to in the call
bound_parameter(c, pos, name, default) ==
    IF Len(c.args) >= pos THEN c.args[pos]
    ELSE IF \E i \in 1..Len(c.kwds) : c.kwds[i][1] = name
    THEN c.kwds[CHOOSE i \in 1..Len(c.kwds) : c.kwds[i][1] = name][2]
    ELSE default

\* (session, start, duration) as the body of sess_timeline sees them
bound_arguments(c) ==
    <<c.args[1], bound_parameter(c, 2, "start", default_start),
      bound_parameter(c, 3, "duration", default_duration)>>

\* the body of sess_timeline: the axes object number ax, made from the
\* activity of the session between start and end
sess_timeline(session, start, duration, ax) ==
    [ax |-> ax, session |-> session,
     xticks |-> <<start * sample_rate, (start + duration) * sample_rate>>]

\* mutant: lru_cache(maxsize=1) keeps the newest entry only
cache_insert_maxsize_1(c, key, result) == (key :> result)

\* maxsize=None: the entry is added and nothing is evicted
cache_insert(c, key, result) == c @@ (key :> result)

InitCache ==
    /\ CacheIdle
    /\ CrosstalkIdle /\ TimelineIdle /\ OverlapIdle

\* a call that finds its key in the cache
SessTimelineHit(c) ==
    /\ Len(history) < MaxCalls
    /\ make_key(c) \in DOMAIN cache
    /\ history' = Append(history, [call |-> c, ret |-> cache[make_key(c)],
                                   computed |-> FALSE])
    /\ UNCHANGED <<cache, num_active_speaker_calls>>

\* a call that does not: the body runs and its result is stored
SessTimelineMiss(c) ==
    /\ Len(history) < MaxCalls
    /\ make_key(c) \notin DOMAIN cache
    /\ LET b == bound_arguments(c)
           result == sess_timeline(b[1], b[2], b[3],
                                   num_active_speaker_calls + 1)
       IN  /\ num_active_speaker_calls' = num_active_speaker_calls + 1
           /\ cache' = cache_insert(cache, make_key(c), result)
           /\ history' = Append(history, [call |-> c, ret |-> result,
                                          computed |-> TRUE])

SessTimeline ==
    /\ \E c \in SessTimelineCalls : SessTimelineHit(c) \/ SessTimelineMiss(c)
    /\ UNCHANGED <<args, call, ret, plot_in, plot_out, olap>>

SpecCache == InitCache /\ [][SessTimeline]_vars

\* C7 as stated: a call whose (session, start, duration) equal those of an
\* earlier call returns the result of that call without computing again, and
\* no entry is evicted
C7_AsStated ==
    /\ \A i, j \in 1..Len(history) :
          (i < j /\ bound_arguments(history[i].call)
                      = bound_arguments(history[j].call))
              => history[j].ret = history[i].ret /\ ~history[j].computed
    /\ \A i \in 1..Len(history) :
          /\ make_key(history[i].call) \in DOMAIN cache
          /\ cache[make_key(history[i].call)] = history[i].ret

\* C7 amended: a call whose positional and keyword arguments, as passed,
\* equal those of an earlier call returns the result of that call without
\* computing again; get_active_speaker runs once per distinct call pattern
\* and no entry is evicted
C7_MemoizedPerCallPattern ==
    /\ \A i, j \in 1..Len(history) :
          (i < j /\ history[i].call = history[j].call)
              => history[j].ret = history[i].ret /\ ~history[j].computed
    /\ \A i \in 1..Len(history) :
          /\ make_key(history[i].call) \in DOMAIN cache
          /\ cache[make_key(history[i].call)] = history[i].ret
    /\ num_active_speaker_calls
          = Cardinality({history[i].call : i \in 1..Len(history)})

\* a call repeated after a call with other arguments, answered from the cache
C7_Witness ==
    /\ Len(history) >= 3
    /\ history[1].call = history[3].call
    /\ history[2].call # history[1].call
    /\ history[3].ret = history[1].ret
    /\ ~history[3].computed
    /\ num_active_speaker_calls = 2

(***************************************************************************)
(* calculate_overlap (with plot_hist=False)                                *)
(***************************************************************************)
\* the sessions argument: the session ids in some order, none twice
SessionLists ==
    UNION {{l \in [1..n -> SessionIds] :
                \A i, j \in 1..n : i # j => l[i] # l[j]} :
           n \in 1..Cardinality(SessionIds)}

\* what load_json can give as the cross-talk intervals of a session
JsonIntervals == { <<0, 160>>, <<320, 640>> }
JsonCrosstalkSets ==
    {c \in SUBSET JsonIntervals : Cardinality(c) <= MaxIntervals}

\* cross_talk_dur = end - start, kept with its interval
cross_talk_dur(crosstalk) == [iv \in crosstalk |-> iv[2] - iv[1]]

RECURSIVE SumDur(_, _)
SumDur(dur, ivs) ==
    IF ivs = {} THEN 0
    ELSE LET iv == CHOOSE iv \in ivs : TRUE
         IN  dur[iv] + SumDur(dur, ivs \ {iv})

\* int(len(filtered_examples) / filter_ratio) - len(filtered_examples), for
\* filter_ratio = <<len(filtered_examples), num_examples>> other than 0
overlapping_without_crosstalk(num_filtered, filter_ratio) ==
    IntDiv(num_filtered * filter_ratio[2], filter_ratio[1]) - num_filtered

\* the entries of the result dicts for one session
session_row(session_id, r, crosstalk, with_crosstalk) ==
    LET num_filtered == Len(r.filtered_examples)
    IN  [session_id |-> session_id,
         num_overlapping_utts |->
             IF with_crosstalk THEN num_filtered
             ELSE overlapping_without_crosstalk(num_filtered, r.filter_ratio),
         rel_overlap |->
             IF with_crosstalk THEN r.filter_ratio
             ELSE <<r.filter_ratio[2] - r.filter_ratio[1], r.filter_ratio[2]>>,
         overlap_durations |-> cross_talk_dur(crosstalk),
         rel_overlap_per_utt |-> r.relative_overlap_per_utt,
         filtered_examples |-> r.filtered_examples]

\* Minimum, Average and Maximum Overlap of a row, in seconds
overlap_columns(row) ==
    LET dur == row.overlap_durations
        ivs == DOMAIN dur
    IN  [minimum |-> <<CHOOSE d \in {dur[iv] : iv \in ivs} :
                          \A iv \in ivs : d <= dur[iv], sample_rate>>,
         average |-> <<SumDur(dur, ivs), Cardinality(ivs) * sample_rate>>,
         maximum |-> <<CHOOSE d \in {dur[iv] : iv \in ivs} :
                          \A iv \in ivs : d >= dur[iv], sample_rate>>]

InitOverlap ==
    /\ olap \in [sessions : SessionLists, example_ids : ExampleIdLists,
                 with_crosstalk : BOOLEAN, threshold : Thresholds,
                 rows : {<<>>}, pc : {"loop"}, error : {None},
                 data : {<<>>}]
    /\ CrosstalkIdle /\ TimelineIdle /\ CacheIdle

\* one pass of the loop over the sessions
CalculateOverlapSession ==
    /\ olap # None
    /\ olap.pc = "loop"
    /\ Len(olap.rows) < Len(olap.sessions)
    /\ \E crosstalk \in JsonCrosstalkSets :
        LET session_id == olap.sessions[Len(olap.rows) + 1]
            min_overlap == IF olap.with_crosstalk THEN olap.threshold
                           ELSE DefaultOverlap
            max_overlap == IF olap.with_crosstalk THEN DefaultOverlap
                           ELSE olap.threshold
            r == get_crosstalk_examples(olap.example_ids, session_id,
                     crosstalk, olap.with_crosstalk, min_overlap, max_overlap)
        IN  IF r.error # NoError
            THEN olap' = [olap EXCEPT !.pc = "error",
                             !.error = [type |-> r.error, line |-> 300]]
            ELSE IF ~olap.with_crosstalk /\ r.filter_ratio[1] = 0
            THEN olap' = [olap EXCEPT !.pc = "error",
                             !.error = [type |-> "ZeroDivisionError",
                                        line |-> 356]]
            ELSE olap' = [olap EXCEPT !.rows =
                             Append(@, session_row(session_id, r, crosstalk,
                                                   olap.with_crosstalk))]
    /\ UNCHANGED <<args, call, ret, plot_in, plot_out, cache, history,
                   num_active_speaker_calls>>

\* the table after the loop: np.min of an empty array raises ValueError
CalculateOverlapData ==
    /\ olap # None
    /\ olap.pc = "loop"
    /\ Len(olap.rows) = Len(olap.sessions)
    /\ IF \E i \in 1..Len(olap.rows) : DOMAIN olap.rows[i].overlap_durations = {}
       THEN olap' = [olap EXCEPT !.pc = "error",
                        !.error = [type |-> "ValueError", line |-> 366]]
       ELSE olap' = [olap EXCEPT !.pc = "done",
                        !.data = [i \in 1..Len(olap.rows) |->
                                     overlap_columns(olap.rows[i])]]
    /\ UNCHANGED <<args, call, ret, plot_in, plot_out, cache, history,
                   num_active_speaker_calls>>

NextOverlap == CalculateOverlapSession \/ CalculateOverlapData

SpecOverlap == InitOverlap /\ [][NextOverlap]_vars

NumSessionExamples(ids, session) ==
    Cardinality({i \in 1..Len(ids) : Slice(ids[i], 0, 3) = session})

\* C10: with with_crosstalk=False, '#Overlapping Utterances' of a session is
\* the number of its utterances minus the number of retained ones, and the
\* computation does not fail on an outcome of the filter, also not when no
\* utterance is retained
C10_OverlappingUtterances ==
    (olap # None /\ ~olap.with_crosstalk) =>
        /\ ~(olap.pc = "error" /\ olap.error.line = 356)
        /\ \A i \in 1..Len(olap.rows) :
              olap.rows[i].num_overlapping_utts
                  = NumSessionExamples(olap.example_ids, olap.sessions[i])
                        - Len(olap.rows[i].filtered_examples)

=============================================================================
